---- MODULE Spec2Model ----
(***************************************************************************)
(* QueueIT backend: the session and queue orchestration of                 *)
(* app/services/{queue_service,session_service}.py on top of the           *)
(* repositories of app/repositories/*.py.                                  *)
(*                                                                         *)
(* The storage tables are the state.  Every repository call is one round   *)
(* trip to the store and is one atomic step; a request handler is the      *)
(* sequence of its round trips with its local variables kept in a request  *)
(* record.  The specifications run the same step operators:                *)
(*   Spec          add, control and song-finished requests interleave      *)
(*                 round trip by round trip;                               *)
(*   SeqSpec       one request at a time, every handler (votes included)   *)
(*                 runs to completion;                                     *)
(*   VoteSpec      vote requests interleave round trip by round trip;      *)
(*   VotePairSpec  exactly two vote requests, overlapping in every way;    *)
(*   BodySpec      votes with any body value, one at a time;               *)
(*   LifeSpec      sessions are created, joined, left and read, songs are  *)
(*                 added and voted on, one request at a time, starting     *)
(*                 with no session at all;                                 *)
(*   WrittenSpec   the lifecycle of LifeSpec with the add taken literally, *)
(*                 the keyword binding of its upsert_song call included;   *)
(*   CodeSpec      the lifecycle with join codes of 3, 4, 20 and 21        *)
(*                 characters;                                             *)
(*   MoveSpec      adds and host advances interleave while users join and  *)
(*                 leave the two sessions;                                 *)
(*   ControlSpec   SeqSpec with every body of SessionControlRequest;       *)
(*   ErrorSpec     requests end with an exception and the registered       *)
(*                 exception handlers build the response;                  *)
(*   IdSpec        requests pass RequestIDMiddleware with any X-Request-ID *)
(*                 header;                                                 *)
(*   MaskSpec      calls of mask_sensitive_value;                          *)
(*   DrainSpec     the host's skips and song-finished calls interleave     *)
(*                 after the last add, every started call completes;       *)
(*   HostSpec      the lifecycle from no session with host calls, one      *)
(*                 request at a time;                                      *)
(*   CreateSpec    two createSession calls interleave.                     *)
(*                                                                         *)
(* Assumptions.  The store accepts every write the handlers issue (row     *)
(* level security policies are not part of the sources).  A repository     *)
(* call is modelled by its effect on the tables.  Outside WrittenSpec the  *)
(* call of SongRepository.upsert_song is taken as bound the way it is      *)
(* meant (queue_service passes external_id= and source=, the parameter is  *)
(* spotify_id), so that the queue behind it can be examined.  The reads    *)
(* of list_session_queue are one snapshot.  created_at is the insertion    *)
(* order.  SessionRepository.create_session is read with its try block     *)
(* indented as intended.  The sessions table rejects a second row with     *)
(* the same join_code (its docstring: 'join_code' must be unique).  Every  *)
(* caller has a row in users.  uuid.uuid4() does not repeat a value.       *)
(***************************************************************************)
EXTENDS Integers, Sequences, FiniteSets, TLC

\* ------------------------------------------------------------------ universe
Users == {"u1", "u2"}
Songs == {"trackA"}
Reqs == {"r1", "r2"}
VoteValues == {1, -1}

NULL == 0

\* bounds of the model
MaxQueued == 3
MaxVotes == 1

VARIABLES users, sessions, queued_songs, votes, songs, reqs

vars == <<users, sessions, queued_songs, votes, songs, reqs>>

\* The five tables as one value, so that a round trip is a function on it.
DB == [users |-> users, sessions |-> sessions, queued_songs |-> queued_songs,
       votes |-> votes, songs |-> songs]

Commit(d) ==
    /\ users' = d.users
    /\ sessions' = d.sessions
    /\ queued_songs' = d.queued_songs
    /\ votes' = d.votes
    /\ songs' = d.songs

\* ------------------------------------------------------------------ helpers
RECURSIVE SumVotes(_)
SumVotes(rows) ==
    IF rows = {} THEN 0
    ELSE LET r == CHOOSE x \in rows : TRUE
         IN r.vote_value + SumVotes(rows \ {r})

SeqToSet(s) == {s[i] : i \in 1..Len(s)}

fetch_votes_count_map(d, queued_ids) ==
    LET rows == {v \in d.votes : v.queued_song_id \in queued_ids}
        keys == {v.queued_song_id : v \in rows}
    IN [k \in keys |-> Cardinality({v \in rows : v.queued_song_id = k})]

\* ------------------------------------------------------------------ queue_repo
\* _fetch_votes_sum_map: one select of the vote rows of the given ids, summed
\* per queued_song_id; an id without vote rows has no key.
fetch_votes_sum_map(d, queued_ids) ==
    LET rows == {v \in d.votes : v.queued_song_id \in queued_ids}
        keys == {v.queued_song_id : v \in rows}
    IN [k \in keys |-> SumVotes({v \in rows : v.queued_song_id = k})]

\* dict.get(key, 0)
GetOr0(m, k) == IF k \in DOMAIN m THEN m[k] ELSE 0

KeyLeqAscending(a, b) ==
    \/ a.votes < b.votes
    \/ a.votes = b.votes /\ a.added_at <= b.added_at

\* the sort key of list_session_queue: (-votes, added_at), compared as tuples
KeyLeq(a, b) ==
    \/ (0 - a.votes) < (0 - b.votes)
    \/ (0 - a.votes) = (0 - b.votes) /\ a.added_at <= b.added_at

\* list.sort(key=...) is stable: an element goes behind every element whose
\* key is not greater than its own.
RECURSIVE InsertByKey(_, _)
InsertByKey(sorted, x) ==
    IF sorted = <<>> THEN <<x>>
    ELSE IF KeyLeq(Head(sorted), x)
         THEN <<Head(sorted)>> \o InsertByKey(Tail(sorted), x)
         ELSE <<x>> \o sorted

RECURSIVE SortByKey(_)
SortByKey(rows) ==
    IF rows = <<>> THEN <<>>
    ELSE InsertByKey(SortByKey(SubSeq(rows, 1, Len(rows) - 1)), rows[Len(rows)])

\* .select("*").eq("session_id", s).order("created_at"): ids of the rows of
\* the session, oldest first
RECURSIVE OrderByCreated(_, _)
OrderByCreated(d, ids) ==
    IF ids = {} THEN <<>>
    ELSE LET m == CHOOSE i \in ids :
                    \A j \in ids : d.queued_songs[i].created_at <= d.queued_songs[j].created_at
         IN <<m>> \o OrderByCreated(d, ids \ {m})

UnfinishedRowIds(d, session_id) ==
    OrderByCreated(d, {i \in 1..Len(d.queued_songs) :
                          /\ d.queued_songs[i].session_id = session_id
                          /\ d.queued_songs[i].status \in {"queued", "playing"}})

SessionRowIds(d, session_id) ==
    OrderByCreated(d, {i \in 1..Len(d.queued_songs) : d.queued_songs[i].session_id = session_id})

ViewRow(d, id, sums) ==
    LET row == d.queued_songs[id]
    IN [id |-> id,
        status |-> row.status,
        added_at |-> row.created_at,
        votes |-> GetOr0(sums, id),
        song |-> IF row.song_external_id \in d.songs THEN row.song_external_id ELSE "none",
        added_by |-> row.added_by_id]

list_session_queue(d, session_id) ==
    LET ids == SessionRowIds(d, session_id)
        sums == fetch_votes_sum_map(d, SeqToSet(ids))
        view_rows == [k \in 1..Len(ids) |-> ViewRow(d, ids[k], sums)]
    IN SortByKey(view_rows)

get_next_queued_song_last(d, session_id) ==
    LET queue_items == list_session_queue(d, session_id)
        queued_items == SelectSeq(queue_items, LAMBDA item : item.status = "queued")
    IN IF queued_items # <<>> THEN queued_items[Len(queued_items)].id ELSE NULL

\* get_next_queued_song: the first listed item with status 'queued', or NULL
get_next_queued_song(d, session_id) ==
    LET queue_items == list_session_queue(d, session_id)
        queued_items == SelectSeq(queue_items, LAMBDA item : item.status = "queued")
    IN IF queued_items # <<>> THEN queued_items[1].id ELSE NULL

\* add_song_to_queue: insert with the default status 'queued'; the store
\* assigns the id and created_at
add_song_to_queue(d, session_id, added_by_id, song_external_id) ==
    [d EXCEPT !.queued_songs = Append(@,
        [session_id |-> session_id,
         added_by_id |-> added_by_id,
         status |-> "queued",
         song_external_id |-> song_external_id,
         created_at |-> Len(d.queued_songs) + 1])]

\* update_song_status: update ... where id = queued_song_id
update_song_status(d, queued_song_id, new_status) ==
    [d EXCEPT !.queued_songs[queued_song_id].status = new_status]

upsert_vote_insert_only(d, queued_song_id, user_id, vote_value) ==
    [d EXCEPT !.votes = @ \cup
        {[queued_song_id |-> queued_song_id, user_id |-> user_id, vote_value |-> vote_value]}]

upsert_vote_song_key(d, queued_song_id, user_id, vote_value) ==
    [d EXCEPT !.votes =
        {v \in @ : v.queued_song_id # queued_song_id}
        \cup {[queued_song_id |-> queued_song_id, user_id |-> user_id, vote_value |-> vote_value]}]

\* the upsert of vote_on_song, on_conflict (queued_song_id, user_id)
upsert_vote(d, queued_song_id, user_id, vote_value) ==
    [d EXCEPT !.votes =
        {v \in @ : ~(v.queued_song_id = queued_song_id /\ v.user_id = user_id)}
        \cup {[queued_song_id |-> queued_song_id, user_id |-> user_id, vote_value |-> vote_value]}]

\* ------------------------------------------------------------------ session_repo, song_repo
\* set_current_song: update sessions set current_song = ... where id = session_id
set_current_song(d, session_id, queued_song_id) ==
    [d EXCEPT !.sessions[session_id].current_song = queued_song_id]

\* upsert_song, on_conflict the catalog id
upsert_song(d, external_id) ==
    [d EXCEPT !.songs = @ \cup {external_id}]

\* ------------------------------------------------------------------ requests
\* A request in flight: the operation, the caller (auth.payload["sub"]), the
\* request body, the handler's position and its local variables.
\*   sid, cur         session_row["id"], and current_song as read
\*   qid              queued["id"] of the inserted row
\*   next             next_song["id"]
\*   status, ret      HTTP status and the returned number once pc = "done"
\*   code             join_code of the request body
\*   view             the CurrentSessionResponse returned, if any
\*   is_locked, pause_playback   Optional[bool] fields of SessionControlRequest
\*   body             the JSON content of an error response
NoView == [session |-> 0, host |-> "none", current_song |-> 0, queue |-> <<>>]

IdleReq ==
    [op |-> "none", user |-> "none", pc |-> "idle",
     song |-> "none", target |-> 0, value |-> 0, skip |-> FALSE,
     sid |-> 0, cur |-> 0, qid |-> 0, next |-> 0,
     status |-> 0, ret |-> 0, code |-> "", view |-> NoView,
     is_locked |-> "unset", pause_playback |-> "unset", body |-> <<>>]

\* The handler returns or raises: the locals are gone; the request (who asked
\* for what) and the response stay until the slot serves the next request.
Done(q, status, ret) ==
    [IdleReq EXCEPT !.op = q.op, !.user = q.user, !.target = q.target,
                    !.value = q.value, !.pc = "done",
                    !.status = status, !.ret = ret]

\* the same for the handlers that take a join code or return a session view
DoneView(q, status, view) ==
    [Done(q, status, 0) EXCEPT !.code = q.code, !.view = view]

Result(d, q) == [db |-> d, req |-> q]

\* session_repo.get_current_for_user: users.current_session, then get_by_id of
\* that session; NULL when the user has no current session.  The two selects
\* are one step: only the session row read last is used by the handlers.
get_current_for_user(d, user_id) ==
    IF d.users[user_id] = NULL THEN NULL ELSE d.users[user_id]

AddUpsertsBeforeSessionCheck(d, q) ==
    LET session_id == get_current_for_user(d, q.user)
    IN IF session_id = NULL
       THEN Result(upsert_song(d, q.song), Done(q, 400, 0))
       ELSE Result(d, [q EXCEPT !.sid = session_id,
                                !.cur = d.sessions[session_id].current_song,
                                !.pc = "add_upsert"])

\* ---- queue_service.add_song_to_queue_for_user
\* 'if not session_row: raise 400'; session_row keeps current_song as read here
AddGetSession(d, q) ==
    LET session_id == get_current_for_user(d, q.user)
    IN IF session_id = NULL
       THEN Result(d, Done(q, 400, 0))
       ELSE Result(d, [q EXCEPT !.sid = session_id,
                                !.cur = d.sessions[session_id].current_song,
                                !.pc = "add_upsert"])

AddWithoutUpsert(d, q) == Result(d, [q EXCEPT !.pc = "add_insert"])

AddUpsertSong(d, q) == Result(upsert_song(d, q.song), [q EXCEPT !.pc = "add_insert"])

\* the keywords of the call song_repo.upsert_song(...) in the service
UpsertSongKeywords ==
    {"external_id", "name", "artist", "album", "durationMSs", "image_url",
     "isrc_identifier", "source"}

\* the parameters of SongRepository.upsert_song: keyword-only, no defaults
UpsertSongParameters ==
    {"spotify_id", "name", "artist", "album", "durationMSs", "image_url",
     "isrc_identifier"}

\* Python binds such a call iff every keyword is a parameter and every
\* parameter is passed; otherwise the call raises TypeError
BindsKeywords(keywords, parameters) == keywords = parameters

\* the call as it is written: the TypeError is caught by no handler of the
\* service and unhandled_exception_handler answers 500
AddUpsertSongCall(d, q) ==
    IF BindsKeywords(UpsertSongKeywords, UpsertSongParameters)
    THEN AddUpsertSong(d, q)
    ELSE Result(d, Done(q, 500, 0))

\* the insert, then the test 'if not session_row.get("current_song")' on the
\* row read at the start of the handler
AddInsert(d, q) ==
    Result(add_song_to_queue(d, q.sid, q.user, q.song),
           [q EXCEPT !.qid = Len(d.queued_songs) + 1,
                     !.pc = IF q.cur = NULL THEN "add_setcur" ELSE "add_list"])

AddSetCurrentOfUser(d, q) ==
    LET session_id == get_current_for_user(d, q.user)
    IN Result(IF session_id = NULL THEN d ELSE set_current_song(d, session_id, q.qid),
              [q EXCEPT !.pc = "add_list"])

AddSetCurrent(d, q) ==
    Result(set_current_song(d, q.sid, q.qid), [q EXCEPT !.pc = "add_list"])

AddListQueue(d, q) ==
    LET queue_items == list_session_queue(d, q.sid)
    IN IF \E k \in 1..Len(queue_items) : queue_items[k].id = q.qid
       THEN Result(d, Done(q, 200, q.qid))
       ELSE Result(d, Done(q, 500, 0))

\* ---- queue_service.vote_for_queued_song / queue_repo.vote_on_song
AnyVoteValue(v) == TRUE

\* VoteRequest.vote_value: Literal[1, -1]
ValidVoteValue(v) == v \in VoteValues

\* the body is validated before the handler runs: 422 on any other value
VoteValidate(d, q) ==
    IF ValidVoteValue(q.value)
    THEN Result(d, [q EXCEPT !.pc = "vote_upsert"])
    ELSE Result(d, Done(q, 422, 0))

VoteUpsertPromotesTop(d, q) ==
    LET e == upsert_vote(d, q.target, q.user, q.value)
        session_id == e.queued_songs[q.target].session_id
    IN Result(set_current_song(e, session_id, list_session_queue(e, session_id)[1].id),
              [q EXCEPT !.pc = "vote_total"])

VoteUpsert(d, q) ==
    Result(upsert_vote(d, q.target, q.user, q.value), [q EXCEPT !.pc = "vote_total"])

VoteTotal(d, q) ==
    Result(d, Done(q, 200, GetOr0(fetch_votes_sum_map(d, {q.target}), q.target)))

\* ---- session_service.control_session_for_user, song_finished_for_user
NoHostCheck(host_id, user_id) == TRUE

\* 'if session_details["host_id"] != user_id: raise 403'
IsHost(host_id, user_id) == host_id = user_id

MarkStatusSwapped(op) == IF op = "control" THEN "played" ELSE "skipped"

\* status given to the current song: 'skipped' by control_session_for_user,
\* 'played' by song_finished_for_user
MarkStatus(op) == IF op = "control" THEN "skipped" ELSE "played"

HostAdvancesOnAnyField(d, q) ==
    LET session_id == get_current_for_user(d, q.user)
    IN IF session_id = NULL
       THEN Result(d, Done(q, 404, 0))
       ELSE LET row == d.sessions[session_id]
            IN IF ~IsHost(row.host_id, q.user)
               THEN Result(d, Done(q, 403, 0))
               ELSE IF q.op = "control" /\ ~q.skip
                       /\ q.is_locked = "unset" /\ q.pause_playback = "unset"
               THEN Result(d, Done(q, 200, 0))
               ELSE Result(d, [q EXCEPT !.sid = session_id,
                                        !.cur = row.current_song,
                                        !.pc = IF row.current_song # NULL
                                               THEN "host_mark" ELSE "adv_next"])

HostGetDetailsOfHosted(d, q) ==
    LET hosted == {s \in 1..Len(d.sessions) : d.sessions[s].host_id = q.user}
    IN IF hosted = {}
       THEN Result(d, Done(q, IF get_current_for_user(d, q.user) = NULL THEN 404 ELSE 403, 0))
       ELSE LET session_id == CHOOSE s \in hosted : TRUE
                row == d.sessions[session_id]
            IN IF q.op = "control" /\ ~q.skip
               THEN Result(d, Done(q, 200, 0))
               ELSE Result(d, [q EXCEPT !.sid = session_id,
                                        !.cur = row.current_song,
                                        !.pc = IF row.current_song # NULL
                                               THEN "host_mark" ELSE "adv_next"])

\* session_row = get_current_for_user (404 when none), session_details =
\* get_by_id(session_row["id"]), the host check (403), and the branch on
\* skip_current_track and on session_details["current_song"]
HostGetDetails(d, q) ==
    LET session_id == get_current_for_user(d, q.user)
    IN IF session_id = NULL
       THEN Result(d, Done(q, 404, 0))
       ELSE LET row == d.sessions[session_id]
            IN IF ~IsHost(row.host_id, q.user)
               THEN Result(d, Done(q, 403, 0))
               ELSE IF q.op = "control" /\ ~q.skip
               THEN Result(d, Done(q, 200, 0))
               ELSE Result(d, [q EXCEPT !.sid = session_id,
                                        !.cur = row.current_song,
                                        !.pc = IF row.current_song # NULL
                                               THEN "host_mark" ELSE "adv_next"])

HostMarkCurrent(d, q) ==
    Result(update_song_status(d, q.cur, MarkStatus(q.op)), [q EXCEPT !.pc = "adv_next"])

\* ---- session_service._advance_to_next_song
AdvanceGetNext(d, q) ==
    LET next_song == get_next_queued_song(d, q.sid)
    IN Result(d, [q EXCEPT !.next = next_song,
                           !.pc = IF next_song # NULL THEN "adv_status" ELSE "adv_clear"])

AdvanceSetPlaying(d, q) ==
    Result(update_song_status(d, q.next, "playing"), [q EXCEPT !.pc = "adv_setcur"])

AdvanceSetCurrentIfUnchanged(d, q) ==
    IF d.sessions[q.sid].current_song = q.cur
    THEN Result(set_current_song(d, q.sid, q.next), Done(q, 200, 0))
    ELSE Result(d, Done(q, 200, 0))

AdvanceSetCurrent(d, q) ==
    Result(set_current_song(d, q.sid, q.next), Done(q, 200, 0))

AdvanceClearCurrent(d, q) ==
    Result(set_current_song(d, q.sid, NULL), Done(q, 200, 0))

\* ------------------------------------------------------------------ user_repo, session lifecycle
\* UserRepository.set_current_session: update users set current_session = ...
set_current_session(d, user_id, session_id) ==
    [d EXCEPT !.users[user_id] = session_id]

\* SessionRepository.get_by_join_code (maybe_single): the id of the session
\* with that code, or NULL
get_by_join_code(d, join_code) ==
    IF \E s \in 1..Len(d.sessions) : d.sessions[s].join_code = join_code
    THEN CHOOSE s \in 1..Len(d.sessions) : d.sessions[s].join_code = join_code
    ELSE NULL

\* SessionRepository.create_session: the insert; the store assigns the id
create_session(d, host_id, join_code) ==
    [d EXCEPT !.sessions = Append(@,
        [host_id |-> host_id, join_code |-> join_code, current_song |-> NULL])]

ValidCreateCodeMinOnly(c) == Len(c) >= 4

\* SessionCreateRequest.join_code: min_length=4, max_length=20
ValidCreateCode(c) == Len(c) >= 4 /\ Len(c) <= 20

\* SessionJoinRequest.join_code: min_length=4, max_length=10
ValidJoinCode(c) == Len(c) >= 4 /\ Len(c) <= 10

\* ids of the view rows, in the order of the listing
QueueIds(d, session_id) ==
    LET queue_items == list_session_queue(d, session_id)
    IN [k \in 1..Len(queue_items) |-> queue_items[k].id]

\* the unique constraint of sessions.join_code: whether a row with this
\* code can be inserted
join_code_unique(d, join_code) == get_by_join_code(d, join_code) = NULL

\* ---- session_service.create_session_for_user
CreateValidate(d, q) ==
    IF ValidCreateCode(q.code)
    THEN Result(d, [q EXCEPT !.pc = "create_insert"])
    ELSE Result(d, DoneView(q, 422, NoView))

CreateInsertJoinsOnConflict(d, q) ==
    IF ~join_code_unique(d, q.code)
    THEN Result(set_current_session(d, q.user, get_by_join_code(d, q.code)),
                DoneView(q, 500, NoView))
    ELSE Result(create_session(d, q.user, q.code),
                [q EXCEPT !.sid = Len(d.sessions) + 1, !.pc = "create_setuser"])

\* 'join_code' must be unique: the store rejects the insert of a code that
\* is taken, create_session turns every failure into ValueError, no handler
\* of the service catches it and unhandled_exception_handler answers 500
CreateInsert(d, q) ==
    IF ~join_code_unique(d, q.code)
    THEN Result(d, DoneView(q, 500, NoView))
    ELSE Result(create_session(d, q.user, q.code),
                [q EXCEPT !.sid = Len(d.sessions) + 1, !.pc = "create_setuser"])

CreateKeepUser(d, q) == Result(d, [q EXCEPT !.pc = "create_host"])

CreateSetUser(d, q) ==
    Result(set_current_session(d, q.user, q.sid), [q EXCEPT !.pc = "create_host"])

\* host_row = get_by_id(created["host_id"]); the response is built from the
\* inserted row with current_song=None and queue=[]
CreateReturn(d, q) ==
    Result(d, DoneView(q, 200,
        [session |-> q.sid, host |-> q.user, current_song |-> NULL, queue |-> <<>>]))

\* ---- session_service.join_session_by_code
JoinValidate(d, q) ==
    IF ValidJoinCode(q.code)
    THEN Result(d, [q EXCEPT !.pc = "join_lookup"])
    ELSE Result(d, DoneView(q, 422, NoView))

JoinLookup(d, q) ==
    LET session_id == get_by_join_code(d, q.code)
    IN IF session_id = NULL
       THEN Result(d, DoneView(q, 404, NoView))
       ELSE Result(d, [q EXCEPT !.sid = session_id, !.pc = "join_setuser"])

JoinKeepUser(d, q) == Result(d, [q EXCEPT !.pc = "join_list"])

JoinSetUser(d, q) ==
    Result(set_current_session(d, q.user, q.sid), [q EXCEPT !.pc = "join_list"])

\* host_row, queue_items = list_session_queue(...); the response is built
\* with current_song=None
JoinReturn(d, q) ==
    Result(d, DoneView(q, 200,
        [session |-> q.sid, host |-> d.sessions[q.sid].host_id,
         current_song |-> NULL, queue |-> QueueIds(d, q.sid)]))

LeaveOnlyWhenActive(d, q) ==
    IF d.users[q.user] = NULL
    THEN Result(d, DoneView(q, 404, NoView))
    ELSE Result(set_current_session(d, q.user, NULL), DoneView(q, 200, NoView))

LeaveEndsHostedSession(d, q) ==
    LET sid == d.users[q.user]
        left == set_current_session(d, q.user, NULL)
    IN IF sid # NULL /\ d.sessions[sid].host_id = q.user
       THEN Result(set_current_song(left, sid, NULL), DoneView(q, 200, NoView))
       ELSE Result(left, DoneView(q, 200, NoView))

\* ---- session_service.leave_current_session_for_user
LeaveSetUser(d, q) ==
    Result(set_current_session(d, q.user, NULL), DoneView(q, 200, NoView))

CurrentEmptyWhenInactive(d, q) ==
    LET session_id == get_current_for_user(d, q.user)
    IN IF session_id = NULL
       THEN Result(d, DoneView(q, 200, NoView))
       ELSE Result(d, [q EXCEPT !.sid = session_id,
                                !.cur = d.sessions[session_id].current_song,
                                !.pc = "current_list"])

\* ---- session_service.get_current_session_for_user
CurrentGetSession(d, q) ==
    LET session_id == get_current_for_user(d, q.user)
    IN IF session_id = NULL
       THEN Result(d, DoneView(q, 404, NoView))
       ELSE Result(d, [q EXCEPT !.sid = session_id,
                                !.cur = d.sessions[session_id].current_song,
                                !.pc = "current_list"])

\* host_row and queue_items; 'if session_row.get("current_song")' decides
\* whether the current song is resolved
CurrentListQueue(d, q) ==
    LET view == [session |-> q.sid, host |-> d.sessions[q.sid].host_id,
                 current_song |-> NULL, queue |-> QueueIds(d, q.sid)]
    IN IF q.cur = NULL
       THEN Result(d, DoneView(q, 200, view))
       ELSE Result(d, [q EXCEPT !.view = view, !.pc = "current_song"])

\* qs = get_queued_song(current_song), then the item with that id in a second
\* list_session_queue of the session, if it is there
CurrentResolveSong(d, q) ==
    LET found == /\ q.cur \in 1..Len(d.queued_songs)
                 /\ \E k \in 1..Len(QueueIds(d, q.sid)) : QueueIds(d, q.sid)[k] = q.cur
    IN Result(d, DoneView(q, 200,
           [q.view EXCEPT !.current_song = IF found THEN q.cur ELSE NULL]))

\* one round trip of a request, by its position
StepOf(d, q) ==
    CASE q.pc = "add_session" -> AddGetSession(d, q)
      [] q.pc = "add_upsert" -> AddUpsertSong(d, q)
      [] q.pc = "add_insert" -> AddInsert(d, q)
      [] q.pc = "add_setcur" -> AddSetCurrent(d, q)
      [] q.pc = "add_list" -> AddListQueue(d, q)
      [] q.pc = "vote_upsert" -> VoteUpsert(d, q)
      [] q.pc = "vote_total" -> VoteTotal(d, q)
      [] q.pc = "host_details" -> HostGetDetails(d, q)
      [] q.pc = "host_mark" -> HostMarkCurrent(d, q)
      [] q.pc = "adv_next" -> AdvanceGetNext(d, q)
      [] q.pc = "adv_status" -> AdvanceSetPlaying(d, q)
      [] q.pc = "adv_setcur" -> AdvanceSetCurrent(d, q)
      [] q.pc = "adv_clear" -> AdvanceClearCurrent(d, q)
      [] q.pc = "vote_validate" -> VoteValidate(d, q)
      [] q.pc = "create_validate" -> CreateValidate(d, q)
      [] q.pc = "create_insert" -> CreateInsert(d, q)
      [] q.pc = "create_setuser" -> CreateSetUser(d, q)
      [] q.pc = "create_host" -> CreateReturn(d, q)
      [] q.pc = "join_validate" -> JoinValidate(d, q)
      [] q.pc = "join_lookup" -> JoinLookup(d, q)
      [] q.pc = "join_setuser" -> JoinSetUser(d, q)
      [] q.pc = "join_list" -> JoinReturn(d, q)
      [] q.pc = "leave_setuser" -> LeaveSetUser(d, q)
      [] q.pc = "current_session" -> CurrentGetSession(d, q)
      [] q.pc = "current_list" -> CurrentListQueue(d, q)
      [] q.pc = "current_song" -> CurrentResolveSong(d, q)

\* a handler run from its first round trip to its response, nothing in between
RECURSIVE RunToEnd(_, _)
RunToEnd(d, q) ==
    IF q.pc = "done" THEN Result(d, q)
    ELSE LET r == StepOf(d, q) IN RunToEnd(r.db, r.req)

\* the request records as the router hands them to the handlers
AddRequest(u, s) == [IdleReq EXCEPT !.op = "add", !.user = u, !.song = s, !.pc = "add_session"]

VoteRequest(u, t, v) ==
    [IdleReq EXCEPT !.op = "vote", !.user = u, !.target = t, !.value = v, !.pc = "vote_upsert"]

ControlRequest(u, skip) ==
    [IdleReq EXCEPT !.op = "control", !.user = u, !.skip = skip, !.pc = "host_details"]

FinishedRequest(u) == [IdleReq EXCEPT !.op = "finished", !.user = u, !.pc = "host_details"]

\* SessionControlRequest: three Optional[bool] fields, None when left out;
\* skip_current_track is read for its truth value only
OptionalBool == {"unset", "true", "false"}

ControlBodies ==
    [skip_current_track : BOOLEAN, is_locked : OptionalBool, pause_playback : OptionalBool]

ControlBodyRequest(u, body) ==
    [ControlRequest(u, body.skip_current_track) EXCEPT
        !.is_locked = body.is_locked, !.pause_playback = body.pause_playback]

\* a vote whose body has not been validated yet
VoteBodyRequest(u, t, v) ==
    [IdleReq EXCEPT !.op = "vote", !.user = u, !.target = t, !.value = v, !.pc = "vote_validate"]

CreateRequest(u, c) ==
    [IdleReq EXCEPT !.op = "create", !.user = u, !.code = c, !.pc = "create_validate"]

JoinRequest(u, c) ==
    [IdleReq EXCEPT !.op = "join", !.user = u, !.code = c, !.pc = "join_validate"]

LeaveRequest(u) == [IdleReq EXCEPT !.op = "leave", !.user = u, !.pc = "leave_setuser"]

CurrentRequest(u) == [IdleReq EXCEPT !.op = "current", !.user = u, !.pc = "current_session"]

\* ------------------------------------------------------------------ initial state
\* Two sessions have been created, session 1 by u1 and session 2 by u2;
\* nothing is queued yet.  u1 is in its own session 1, u2 has joined it
\* (Init) or is in either session (SeqInit).
InitSessions ==
    <<[host_id |-> "u1", join_code |-> "AAAA", current_song |-> NULL],
      [host_id |-> "u2", join_code |-> "BBBB", current_song |-> NULL]>>

InitMemberships ==
    {[u \in Users |-> 1],
     [u \in Users |-> IF u = "u1" THEN 1 ELSE 2]}

EmptyQueues ==
    /\ sessions = InitSessions
    /\ queued_songs = <<>>
    /\ votes = {}
    /\ songs = {}
    /\ reqs = [r \in Reqs |-> IdleReq]

Init == users = [u \in Users |-> 1] /\ EmptyQueues

SeqInit == users \in InitMemberships /\ EmptyQueues

\* ------------------------------------------------------------------ requests arrive
Free(r) == reqs[r].pc \in {"idle", "done"}

\* adds that have not inserted their row yet
PendingAdds == {r \in Reqs : reqs[r].pc \in {"add_session", "add_upsert", "add_insert"}}

HasVote(t, u) == \E v \in votes : v.queued_song_id = t /\ v.user_id = u

StartAdd(r, u, s) ==
    /\ Free(r)
    /\ Len(queued_songs) + Cardinality(PendingAdds) < MaxQueued
    /\ reqs' = [reqs EXCEPT ![r] = AddRequest(u, s)]
    /\ UNCHANGED <<users, sessions, queued_songs, votes, songs>>

\* the vote row references an existing queued song (foreign key)
StartVote(r, u, t, v) ==
    /\ Free(r)
    /\ t \in 1..Len(queued_songs)
    /\ reqs' = [reqs EXCEPT ![r] = VoteRequest(u, t, v)]
    /\ UNCHANGED <<users, sessions, queued_songs, votes, songs>>

StartControl(r, u, skip) ==
    /\ Free(r)
    /\ reqs' = [reqs EXCEPT ![r] = ControlRequest(u, skip)]
    /\ UNCHANGED <<users, sessions, queued_songs, votes, songs>>

StartFinished(r, u) ==
    /\ Free(r)
    /\ reqs' = [reqs EXCEPT ![r] = FinishedRequest(u)]
    /\ UNCHANGED <<users, sessions, queued_songs, votes, songs>>

\* ------------------------------------------------------------------ round trips
Apply(r, res) ==
    /\ Commit(res.db)
    /\ reqs' = [reqs EXCEPT ![r] = res.req]

AddGetSessionStep(r) == reqs[r].pc = "add_session" /\ Apply(r, AddGetSession(DB, reqs[r]))

AddUpsertSongStep(r) == reqs[r].pc = "add_upsert" /\ Apply(r, AddUpsertSong(DB, reqs[r]))

AddInsertStep(r) == reqs[r].pc = "add_insert" /\ Apply(r, AddInsert(DB, reqs[r]))

AddSetCurrentStep(r) == reqs[r].pc = "add_setcur" /\ Apply(r, AddSetCurrent(DB, reqs[r]))

AddListQueueStep(r) == reqs[r].pc = "add_list" /\ Apply(r, AddListQueue(DB, reqs[r]))

VoteUpsertStep(r) == reqs[r].pc = "vote_upsert" /\ Apply(r, VoteUpsert(DB, reqs[r]))

VoteTotalStep(r) == reqs[r].pc = "vote_total" /\ Apply(r, VoteTotal(DB, reqs[r]))

HostGetDetailsStep(r) == reqs[r].pc = "host_details" /\ Apply(r, HostGetDetails(DB, reqs[r]))

HostMarkCurrentStep(r) == reqs[r].pc = "host_mark" /\ Apply(r, HostMarkCurrent(DB, reqs[r]))

AdvanceGetNextStep(r) == reqs[r].pc = "adv_next" /\ Apply(r, AdvanceGetNext(DB, reqs[r]))

AdvanceSetPlayingStep(r) == reqs[r].pc = "adv_status" /\ Apply(r, AdvanceSetPlaying(DB, reqs[r]))

AdvanceSetCurrentStep(r) == reqs[r].pc = "adv_setcur" /\ Apply(r, AdvanceSetCurrent(DB, reqs[r]))

AdvanceClearCurrentStep(r) == reqs[r].pc = "adv_clear" /\ Apply(r, AdvanceClearCurrent(DB, reqs[r]))

Next ==
    \E r \in Reqs :
        \/ \E u \in Users, s \in Songs : StartAdd(r, u, s)
        \/ \E u \in Users, skip \in BOOLEAN : StartControl(r, u, skip)
        \/ \E u \in Users : StartFinished(r, u)
        \/ AddGetSessionStep(r)
        \/ AddUpsertSongStep(r)
        \/ AddInsertStep(r)
        \/ AddSetCurrentStep(r)
        \/ AddListQueueStep(r)
        \/ HostGetDetailsStep(r)
        \/ HostMarkCurrentStep(r)
        \/ AdvanceGetNextStep(r)
        \/ AdvanceSetPlayingStep(r)
        \/ AdvanceSetCurrentStep(r)
        \/ AdvanceClearCurrentStep(r)

Spec == Init /\ [][Next]_vars

\* ------------------------------------------------------------------ concurrent voting
\* Both users are in session 1 and have queued one song each: the first add
\* took the current-song slot, the second found it taken.  From here only
\* votes arrive, and their round trips interleave.
VoteInitQueue ==
    <<[session_id |-> 1, added_by_id |-> "u1", status |-> "queued",
       song_external_id |-> "trackA", created_at |-> 1],
      [session_id |-> 1, added_by_id |-> "u2", status |-> "queued",
       song_external_id |-> "trackA", created_at |-> 2]>>

VoteInit ==
    /\ users = [u \in Users |-> 1]
    /\ sessions = [InitSessions EXCEPT ![1].current_song = 1]
    /\ queued_songs = VoteInitQueue
    /\ votes = {}
    /\ songs = {"trackA"}
    /\ reqs = [r \in Reqs |-> IdleReq]

VoteNext ==
    \E r \in Reqs :
        \/ \E u \in Users, t \in 1..MaxQueued, v \in VoteValues : StartVote(r, u, t, v)
        \/ VoteUpsertStep(r)
        \/ VoteTotalStep(r)

VoteSpec == VoteInit /\ [][VoteNext]_vars

\* ------------------------------------------------------------------ a pair of votes
\* The same queue after any number of earlier votes (at most one row per
\* song and user); then each slot serves one vote request, and the two
\* requests overlap in every possible way.
AllVoteRows ==
    [queued_song_id : 1..Len(VoteInitQueue), user_id : Users, vote_value : VoteValues]

Ledgers ==
    {S \in SUBSET AllVoteRows :
        \A a, b \in S :
            (a.queued_song_id = b.queued_song_id /\ a.user_id = b.user_id) => a = b}

VotePairInit ==
    /\ users = [u \in Users |-> 1]
    /\ sessions = [InitSessions EXCEPT ![1].current_song = 1]
    /\ queued_songs = VoteInitQueue
    /\ votes \in Ledgers
    /\ songs = {"trackA"}
    /\ reqs = [r \in Reqs |-> IdleReq]

StartVoteOnce(r, u, t, v) == reqs[r].pc = "idle" /\ StartVote(r, u, t, v)

VotePairNext ==
    \E r \in Reqs :
        \/ \E u \in Users, t \in 1..MaxQueued, v \in VoteValues : StartVoteOnce(r, u, t, v)
        \/ VoteUpsertStep(r)
        \/ VoteTotalStep(r)

VotePairSpec == VotePairInit /\ [][VotePairNext]_vars

\* ------------------------------------------------------------------ one request at a time
\* The handler runs from request to response with no other request between
\* its round trips; the response is kept in slot r1.
Serve(q) ==
    LET res == RunToEnd(DB, q)
    IN /\ Commit(res.db)
       /\ reqs' = [reqs EXCEPT !["r1"] = res.req]

SeqAdd(u, s) ==
    /\ Len(queued_songs) < MaxQueued
    /\ Serve(AddRequest(u, s))

SeqVote(u, t, v) ==
    /\ t \in 1..Len(queued_songs)
    /\ HasVote(t, u) \/ Cardinality(votes) < MaxVotes
    /\ Serve(VoteRequest(u, t, v))

SeqControl(u, skip) == Serve(ControlRequest(u, skip))

SeqFinished(u) == Serve(FinishedRequest(u))

SeqNext ==
    \/ \E u \in Users, s \in Songs : SeqAdd(u, s)
    \/ \E u \in Users, t \in 1..MaxQueued, v \in VoteValues : SeqVote(u, t, v)
    \/ \E u \in Users, skip \in BOOLEAN : SeqControl(u, skip)
    \/ \E u \in Users : SeqFinished(u)

SeqSpec == SeqInit /\ [][SeqNext]_vars

\* ------------------------------------------------------------------ control bodies
\* The requests of SeqSpec, one at a time, with controlSession taking every
\* body of SessionControlRequest.
SeqControlBody(u, body) == Serve(ControlBodyRequest(u, body))

ControlNext ==
    \/ \E u \in Users, s \in Songs : SeqAdd(u, s)
    \/ \E u \in Users, t \in 1..MaxQueued, v \in VoteValues : SeqVote(u, t, v)
    \/ \E u \in Users, body \in ControlBodies : SeqControlBody(u, body)
    \/ \E u \in Users : SeqFinished(u)

ControlSpec == SeqInit /\ [][ControlNext]_vars

\* ------------------------------------------------------------------ vote bodies
\* The queue of VoteInit; votes arrive one at a time with any body value.
VoteBodies == {-1, 0, 1, 2}

SeqVoteBody(u, t, v) ==
    /\ t \in 1..Len(queued_songs)
    /\ Serve(VoteBodyRequest(u, t, v))

BodyNext == \E u \in Users, t \in 1..MaxQueued, v \in VoteBodies : SeqVoteBody(u, t, v)

BodySpec == VoteInit /\ [][BodyNext]_vars

\* ------------------------------------------------------------------ session lifecycle
\* No session exists and no user is in one.  Sessions are created, joined
\* and left, songs are added and voted on, one request at a time.
Codes == {"AB", "AAAA", "BBBBBBBBBBBB"}

MaxSessions == 2

MaxLifeQueued == 2

LifeInit ==
    /\ users = [u \in Users |-> NULL]
    /\ sessions = <<>>
    /\ queued_songs = <<>>
    /\ votes = {}
    /\ songs = {}
    /\ reqs = [r \in Reqs |-> IdleReq]

LifeCreate(u, c) ==
    /\ Len(sessions) < MaxSessions \/ ~ValidCreateCode(c) \/ get_by_join_code(DB, c) # NULL
    /\ Serve(CreateRequest(u, c))

LifeJoin(u, c) == Serve(JoinRequest(u, c))

LifeLeave(u) == Serve(LeaveRequest(u))

LifeGetCurrent(u) == Serve(CurrentRequest(u))

LifeAdd(u, s) ==
    /\ Len(queued_songs) < MaxLifeQueued
    /\ Serve(AddRequest(u, s))

LifeNext ==
    \/ \E u \in Users, c \in Codes : LifeCreate(u, c)
    \/ \E u \in Users, c \in Codes : LifeJoin(u, c)
    \/ \E u \in Users : LifeLeave(u)
    \/ \E u \in Users : LifeGetCurrent(u)
    \/ \E u \in Users, s \in Songs : LifeAdd(u, s)
    \/ \E u \in Users, t \in 1..MaxLifeQueued, v \in VoteValues : SeqVote(u, t, v)

LifeSpec == LifeInit /\ [][LifeNext]_vars

\* ------------------------------------------------------------------ join code lengths
\* The session lifecycle with join codes at the edges of the length limits:
\* 3, 4, 20 and 21 characters.
BoundaryCodes == {"ABC", "ABCD", "ABCDEFGHIJKLMNOPQRST", "ABCDEFGHIJKLMNOPQRSTU"}

CodeCreate(u, c) ==
    /\ Len(sessions) < MaxSessions \/ ~ValidCreateCode(c) \/ get_by_join_code(DB, c) # NULL
    /\ Serve(CreateRequest(u, c))

CodeJoin(u, c) == Serve(JoinRequest(u, c))

CodeNext ==
    \/ \E u \in Users, c \in BoundaryCodes : CodeCreate(u, c)
    \/ \E u \in Users, c \in BoundaryCodes : CodeJoin(u, c)
    \/ \E u \in Users : LifeLeave(u)
    \/ \E u \in Users : LifeGetCurrent(u)

CodeSpec == LifeInit /\ [][CodeNext]_vars

\* ------------------------------------------------------------------ exception handlers
\* What a handler can raise: HTTPException with a status and a detail, a
\* RequestValidationError with its list of errors, or any other exception
\* (the repositories raise ValueError, the client library its own errors, a
\* mistaken call TypeError).
HTTPExceptions ==
    [type : {"HTTPException"}, status_code : {400, 403, 404},
     detail : {"No active session", "Session not found"}]

ValidationErrors ==
    [type : {"RequestValidationError"},
     errors : {<<"join_code: String should have at least 4 characters">>,
               <<"vote_value: Input should be 1 or -1">>}]

InternalErrors ==
    [type : {"ValueError", "TypeError", "APIError"},
     message : {"Failed to create session: duplicate key value violates unique constraint",
                "upsert_song() got an unexpected keyword argument 'external_id'"}]

\* request.state.request_id, "unknown" when the middleware has set none
RequestIds == {"unknown", "req-1", "req-2"}

http_exception_handler(request_id, exc) ==
    [status_code |-> exc.status_code,
     content |-> [error |-> exc.detail, status_code |-> exc.status_code,
                  request_id |-> request_id]]

validation_exception_handler(request_id, exc) ==
    [status_code |-> 422,
     content |-> [error |-> "Validation error", status_code |-> 422,
                  detail |-> exc.errors, request_id |-> request_id]]

exception_handler_leaking(request_id, exc) ==
    [status_code |-> 500,
     content |-> [error |-> exc.message, status_code |-> 500, request_id |-> request_id]]

unhandled_exception_handler(request_id, exc) ==
    [status_code |-> 500,
     content |-> [error |-> "Internal server error", status_code |-> 500,
                  request_id |-> request_id]]

\* register_exception_handlers: the handler of the closest class
HandleException(request_id, exc) ==
    IF exc.type = "HTTPException" THEN http_exception_handler(request_id, exc)
    ELSE IF exc.type = "RequestValidationError"
    THEN validation_exception_handler(request_id, exc)
    ELSE unhandled_exception_handler(request_id, exc)

\* the request in slot r ends with exception exc; the response is kept
Fail(r, request_id, exc) ==
    /\ LET response == HandleException(request_id, exc)
       IN reqs' = [reqs EXCEPT ![r] = [IdleReq EXCEPT !.op = "failed", !.pc = "done",
                                                      !.status = response.status_code,
                                                      !.body = response.content]]
    /\ UNCHANGED <<users, sessions, queued_songs, votes, songs>>

FailHTTP(r, request_id, exc) == Fail(r, request_id, exc)

FailValidation(r, request_id, exc) == Fail(r, request_id, exc)

FailInternal(r, request_id, exc) == Fail(r, request_id, exc)

ErrorNext ==
    \E r \in Reqs, request_id \in RequestIds :
        \/ \E exc \in HTTPExceptions : FailHTTP(r, request_id, exc)
        \/ \E exc \in ValidationErrors : FailValidation(r, request_id, exc)
        \/ \E exc \in InternalErrors : FailInternal(r, request_id, exc)

ErrorSpec == Init /\ [][ErrorNext]_vars

\* ------------------------------------------------------------------ moving between sessions
\* The two sessions of InitSessions.  Adds, skips and song-finished calls
\* interleave round trip by round trip while users join and leave.
MoveCodes == {"AAAA", "BBBB"}

\* the users who change session; u1 stays in the session it hosts
Movers == {"u2"}

MaxMoveQueued == 2

StartMoveAdd(r, u, s) ==
    /\ Free(r)
    /\ Len(queued_songs) + Cardinality(PendingAdds) < MaxMoveQueued
    /\ reqs' = [reqs EXCEPT ![r] = AddRequest(u, s)]
    /\ UNCHANGED <<users, sessions, queued_songs, votes, songs>>

\* a join reads columns that never change (join_code, host_id) and the
\* queue, and writes once (set_current_session): it is taken in one step, at
\* any point between the round trips of the requests in flight
MoveJoin(u, c) ==
    /\ Commit(RunToEnd(DB, JoinRequest(u, c)).db)
    /\ UNCHANGED reqs

\* a leave is one round trip
MoveLeave(u) ==
    /\ Commit(RunToEnd(DB, LeaveRequest(u)).db)
    /\ UNCHANGED reqs

\* the next round trip of the request in slot r; the slot is free again
\* once the response has gone out
RoundTrip(r) ==
    /\ ~Free(r)
    /\ LET res == StepOf(DB, reqs[r])
       IN /\ Commit(res.db)
          /\ reqs' = [reqs EXCEPT ![r] = IF res.req.pc = "done" THEN IdleReq ELSE res.req]

MoveNext ==
    \/ \E r \in Reqs :
          \/ \E u \in Users, s \in Songs : StartMoveAdd(r, u, s)
          \/ \E u \in Users : StartControl(r, u, TRUE)
          \/ \E u \in Users : StartFinished(r, u)
          \/ RoundTrip(r)
    \/ \E u \in Movers, c \in MoveCodes : MoveJoin(u, c)
    \/ \E u \in Movers : MoveLeave(u)

MoveSpec == SeqInit /\ [][MoveNext]_vars

\* ------------------------------------------------------------------ the add as written
\* The session lifecycle of LifeSpec with add_song_to_queue_for_user taken
\* literally, the keyword binding of its upsert_song call included.
WrittenAdd(u, s) ==
    LET first == AddGetSession(DB, AddRequest(u, s))
        second == IF first.req.pc = "done" THEN first
                  ELSE AddUpsertSongCall(first.db, first.req)
        last == RunToEnd(second.db, second.req)
    IN /\ Commit(last.db)
       /\ reqs' = [reqs EXCEPT !["r1"] = last.req]

WrittenNext ==
    \/ \E u \in Users, c \in Codes : LifeCreate(u, c)
    \/ \E u \in Users, c \in Codes : LifeJoin(u, c)
    \/ \E u \in Users : LifeLeave(u)
    \/ \E u \in Users : LifeGetCurrent(u)
    \/ \E u \in Users, s \in Songs : WrittenAdd(u, s)

WrittenSpec == LifeInit /\ [][WrittenNext]_vars

\* ------------------------------------------------------------------ request ids
\* RequestIDMiddleware.dispatch.  The X-Request-ID header of a request is
\* absent (<<>>) or present with a value (<<v>>), and a client may send it
\* empty or send an id it has seen in an earlier response.  uuid.uuid4() is
\* taken never to return a value it has returned to a request still held.
UUID4s == {"uuid4-a", "uuid4-b", "uuid4-c", "uuid4-d"}

RequestIdHeaders == {<<>>, <<"">>, <<"custom-test-id-456">>, <<"req-1">>, <<"uuid4-a">>}

\* request.headers.get("X-Request-ID") or str(uuid.uuid4()): None and the
\* empty string are both false
dispatch(header, uuid4) ==
    IF header # <<>> /\ header[1] # "" THEN header[1] ELSE uuid4

\* one request through the middleware: the response carries request_id in
\* its X-Request-ID header
Dispatch(r, header) ==
    /\ LET held == {x \in Reqs : reqs[x].op = "request"}
           generated == {reqs[x].body.request_id :
                           x \in {y \in held : dispatch(reqs[y].body.header, "") = ""}}
       IN \E uuid4 \in UUID4s \ generated :
             reqs' = [reqs EXCEPT ![r] =
                         [IdleReq EXCEPT !.op = "request", !.pc = "done", !.status = 200,
                                         !.body = [header |-> header,
                                                   request_id |-> dispatch(header, uuid4)]]]
    /\ UNCHANGED <<users, sessions, queued_songs, votes, songs>>

IdNext == \E r \in Reqs, header \in RequestIdHeaders : Dispatch(r, header)

IdSpec == Init /\ [][IdNext]_vars

\* ------------------------------------------------------------------ masking
\* utils/log_context.mask_sensitive_value.  A Python value carries its type:
\* a str is the sequence of its characters, a list the sequence of its
\* items, a dict the sequence of its <<key, value>> items, anything else is
\* "other".
MaxMaskLen == 3

\* the arguments tried, by type
MaskValues ==
    LET Strs(n) == {[type |-> "str", v |-> s] : s \in UNION {[1..k -> {"a", "b"}] : k \in 0..n}}
        None == [type |-> "other", v |-> <<>>]
    IN [str |-> Strs(MaxMaskLen),
        list |-> {[type |-> "list", v |-> <<x, y>>] : x \in Strs(1), y \in Strs(2) \cup {None}},
        dict |-> {[type |-> "dict",
                   v |-> << <<"username", x>>,
                            <<"credentials",
                              [type |-> "dict", v |-> << <<"password", y>> >>]>> >>] :
                     x \in Strs(1), y \in Strs(2)}]

VisibleChars == 0..2

\* value[-visible_chars:] is the slice from index -visible_chars: counted
\* from the end when that is negative, from the start otherwise
RECURSIVE mask_sensitive_value(_, _, _)
mask_sensitive_value(value, mask_char, visible_chars) ==
    IF value.type = "str"
    THEN LET len == Len(value.v)
             masked_length == len - visible_chars
             start == IF -visible_chars < 0
                      THEN (IF len - visible_chars > 0 THEN len - visible_chars ELSE 0)
                      ELSE (IF -visible_chars < len THEN -visible_chars ELSE len)
         IN IF len <= visible_chars
            THEN [type |-> "str", v |-> [i \in 1..len |-> mask_char]]
            ELSE [type |-> "str",
                  v |-> [i \in 1..masked_length |-> mask_char]
                           \o SubSeq(value.v, start + 1, len)]
    ELSE IF value.type = "dict"
    THEN [type |-> "dict",
          v |-> [i \in 1..Len(value.v) |->
                    <<value.v[i][1],
                      mask_sensitive_value(value.v[i][2], mask_char, visible_chars)>>]]
    ELSE IF value.type = "list"
    THEN [type |-> "list",
          v |-> [i \in 1..Len(value.v) |->
                    mask_sensitive_value(value.v[i], mask_char, visible_chars)]]
    ELSE value

\* one call with the default mask character; the arguments and the result
\* are kept
Mask(r, value, visible_chars) ==
    /\ reqs' = [reqs EXCEPT ![r] =
                   [IdleReq EXCEPT !.op = "mask", !.pc = "done",
                                   !.body = [value |-> value, visible_chars |-> visible_chars,
                                             result |-> mask_sensitive_value(value, "*",
                                                                             visible_chars)]]]
    /\ UNCHANGED <<users, sessions, queued_songs, votes, songs>>

MaskNext ==
    \E type \in DOMAIN MaskValues :
        \E value \in MaskValues[type], visible_chars \in VisibleChars :
            Mask("r1", value, visible_chars)

MaskSpec == Init /\ [][MaskNext]_vars

\* ------------------------------------------------------------------ draining the queue
\* Session 1 after the last add: up to MaxQueued songs were added one after
\* the other, the first took the current-song slot, and nothing is added
\* any more.  The host skips and reports finished songs, the round trips of
\* the calls interleave, and every call that was started is run to its end
\* (weak fairness of each round trip).  AdvanceGetNextStep(r) is enabled
\* exactly when the request is at "adv_next" and always leaves it, so its
\* weak fairness is written as []<>(reqs[r].pc # "adv_next").
DrainInit ==
    /\ users = [u \in Users |-> 1]
    /\ \E n \in 1..MaxQueued :
          queued_songs = [i \in 1..n |->
                             [session_id |-> 1, added_by_id |-> "u2", status |-> "queued",
                              song_external_id |-> "trackA", created_at |-> i]]
    /\ sessions = [InitSessions EXCEPT ![1].current_song = 1]
    /\ votes = {}
    /\ songs = {"trackA"}
    /\ reqs = [r \in Reqs |-> IdleReq]

DrainNext ==
    \E r \in Reqs :
        \/ StartControl(r, "u1", TRUE)
        \/ StartFinished(r, "u1")
        \/ HostGetDetailsStep(r)
        \/ HostMarkCurrentStep(r)
        \/ AdvanceGetNextStep(r)
        \/ AdvanceSetPlayingStep(r)
        \/ AdvanceSetCurrentStep(r)
        \/ AdvanceClearCurrentStep(r)

DrainSpec ==
    /\ DrainInit /\ [][DrainNext]_vars
    /\ \A r \in Reqs :
          /\ WF_vars(HostGetDetailsStep(r))
          /\ WF_vars(HostMarkCurrentStep(r))
          /\ []<>(reqs[r].pc # "adv_next")
          /\ WF_vars(AdvanceSetPlayingStep(r))
          /\ WF_vars(AdvanceSetCurrentStep(r))
          /\ WF_vars(AdvanceClearCurrentStep(r))

\* ------------------------------------------------------------------ hosts away from their session
\* The lifecycle from no session at all with the host calls: a user creates
\* a session, joins the other one or leaves, songs are added, and anyone
\* calls controlSession and songFinished, one request at a time.
HostNext ==
    \/ \E u \in Users, c \in MoveCodes : LifeCreate(u, c)
    \/ \E u \in Users, c \in MoveCodes : LifeJoin(u, c)
    \/ \E u \in Users : LifeLeave(u)
    \/ \E u \in Users, s \in Songs : LifeAdd(u, s)
    \/ \E u \in Users, skip \in BOOLEAN : SeqControl(u, skip)
    \/ \E u \in Users : SeqFinished(u)

HostSpec == LifeInit /\ [][HostNext]_vars

\* ------------------------------------------------------------------ concurrent creates
\* No session yet.  Each request slot serves one createSession call, and
\* the round trips of the two calls interleave.
StartCreate(r, u, c) ==
    /\ reqs[r].pc = "idle"
    /\ reqs' = [reqs EXCEPT ![r] = CreateRequest(u, c)]
    /\ UNCHANGED <<users, sessions, queued_songs, votes, songs>>

CreateStep(r) ==
    /\ reqs[r].pc \notin {"idle", "done"}
    /\ Apply(r, StepOf(DB, reqs[r]))

CreateNext ==
    \E r \in Reqs :
        \/ \E u \in Users, c \in Codes : StartCreate(r, u, c)
        \/ CreateStep(r)

CreateSpec == LifeInit /\ [][CreateNext]_vars

\* ------------------------------------------------------------------ shorthands of the properties
Statuses == {"queued", "playing", "played", "skipped"}

Terminal == {"played", "skipped"}

SessionIds == 1..Len(sessions)

QueuedIds == 1..Len(queued_songs)

VoteRows(t, u) == {v \in votes : v.queued_song_id = t /\ v.user_id = u}

\* the aggregate of a queued song: the sum of its vote rows
Total(t) == SumVotes({v \in votes : v.queued_song_id = t})

TypeOK ==
    /\ users \in [Users -> SessionIds \cup {NULL}]
    /\ \A s \in SessionIds : sessions[s].current_song \in QueuedIds \cup {NULL}
    /\ \A i \in QueuedIds : queued_songs[i].status \in Statuses
    /\ \A v \in votes : v.queued_song_id \in QueuedIds /\ v.vote_value \in VoteValues
    /\ \A r \in Reqs : DOMAIN reqs[r] = DOMAIN IdleReq

\* ------------------------------------------------------------------ C1
Sorted(q) ==
    \A i, j \in 1..Len(q) :
        i < j => \/ q[i].votes > q[j].votes
                 \/ q[i].votes = q[j].votes /\ q[i].added_at <= q[j].added_at

\* C1: in every reachable state the listing of every session is sorted by
\* vote total descending, and entries with equal totals by creation time
\* ascending.
C1_ListSorted == \A s \in SessionIds : Sorted(list_session_queue(DB, s))

\* a vote has moved a later song in front of two earlier ones that tie
C1_Witness ==
    \E s \in SessionIds :
        LET q == list_session_queue(DB, s)
        IN /\ Len(q) >= 3
           /\ q[1].added_at > q[2].added_at
           /\ q[2].votes = q[3].votes
           /\ q[2].added_at < q[3].added_at

\* ------------------------------------------------------------------ C2
AddWrites(r) == reqs[r].pc = "add_setcur" /\ reqs'[r].pc = "add_list"

\* C2: whenever an add's write to current_song takes effect, the stored
\* current_song of that session is null at that moment.
C2_AddWritesOnlyOverNull ==
    [][\A r \in Reqs : AddWrites(r) => sessions[reqs[r].sid].current_song = NULL]_vars

\* ------------------------------------------------------------------ C3
\* r2 is an add to the same session that also found current_song null and
\* whose song now holds the slot
WonSlot(r2, sid) ==
    /\ reqs[r2].op = "add"
    /\ reqs[r2].pc = "add_list"
    /\ reqs[r2].sid = sid
    /\ reqs[r2].cur = NULL
    /\ sessions[sid].current_song = reqs[r2].qid

\* C3: of the concurrent adds to a session with current_song null, once one
\* add's song is the current song every other add leaves current_song as it
\* is and its song stays queued.
C3_OneAddWins ==
    [][\A r, r2 \in Reqs :
          (r # r2 /\ AddWrites(r) /\ WonSlot(r2, reqs[r].sid))
              => sessions'[reqs[r].sid].current_song = sessions[reqs[r].sid].current_song]_vars

\* ------------------------------------------------------------------ C4
\* C4: a queued song whose status is played or skipped keeps that status in
\* every later state.
C4_TerminalIsFinal ==
    [][\A i \in QueuedIds :
          queued_songs[i].status \in Terminal
              => queued_songs'[i].status = queued_songs[i].status]_vars

\* ------------------------------------------------------------------ C5
\* C5: after any completed operation a non-null current_song references a
\* queued song with status playing.
C5_CurrentIsPlaying ==
    \A s \in SessionIds :
        sessions[s].current_song # NULL
            => queued_songs[sessions[s].current_song].status = "playing"

\* ------------------------------------------------------------------ C6
HostOps == {"control", "finished"}

NotHostOfCurrent(u) == users[u] # NULL /\ sessions[users[u]].host_id # u

\* C6: the step of a controlSession or songFinished request whose caller is
\* not the host of the caller's session answers 403 and leaves every table
\* as it is.
C6_NonHostForbidden ==
    [][\A r \in Reqs :
          (reqs[r].op \in HostOps /\ reqs[r].pc # "done" /\ reqs'[r] # reqs[r]
           /\ NotHostOfCurrent(reqs[r].user))
              => /\ reqs'[r].pc = "done"
                 /\ reqs'[r].status = 403
                 /\ DB' = DB]_vars

\* a guest was refused while a song was current and another one queued
C6_Witness ==
    \E r \in Reqs :
        /\ reqs[r].pc = "done" /\ reqs[r].op \in HostOps /\ reqs[r].status = 403
        /\ NotHostOfCurrent(reqs[r].user)
        /\ sessions[users[reqs[r].user]].current_song # NULL
        /\ \E i \in QueuedIds : i # sessions[users[reqs[r].user]].current_song

\* ------------------------------------------------------------------ C7
\* what an advance of session s has to choose from: the entries still queued,
\* the song the call terminates left out
Candidates(s) ==
    {i \in QueuedIds : /\ queued_songs[i].session_id = s
                       /\ queued_songs[i].status = "queued"
                       /\ i # sessions[s].current_song}

\* c is ahead of o in listQueue order
Ahead(c, o) ==
    \/ Total(c) > Total(o)
    \/ Total(c) = Total(o) /\ queued_songs[c].created_at < queued_songs[o].created_at

\* the state after a host's skip or songFinished on session s
Advanced(s) ==
    IF Candidates(s) = {}
    THEN sessions'[s].current_song = NULL
    ELSE LET c == sessions'[s].current_song
         IN /\ c \in Candidates(s)
            /\ \A o \in Candidates(s) \ {c} : Ahead(c, o)
            /\ queued_songs'[c].status = "playing"

HostCall(u) == SeqControl(u, TRUE) \/ SeqFinished(u)

\* C7: a host's skip or songFinished that runs alone makes the first queued
\* entry in listQueue order the current song and marks it playing, and sets
\* current_song to null when no entry is queued.
C7_AdvancePicksHead ==
    [][\A u \in Users :
          (HostCall(u) /\ reqs'["r1"].status = 200) => Advanced(users[u])]_vars

\* a host call has promoted a song over an older one that is still queued
C7_Witness ==
    /\ reqs["r1"].pc = "done" /\ reqs["r1"].op \in HostOps /\ reqs["r1"].status = 200
    /\ LET s == users[reqs["r1"].user]
           c == sessions[s].current_song
       IN /\ c # NULL
          /\ queued_songs[c].status = "playing"
          /\ \E o \in QueuedIds : /\ o < c
                                  /\ queued_songs[o].session_id = s
                                  /\ queued_songs[o].status = "queued"

\* ------------------------------------------------------------------ C8
\* the call gives the previous current song of s the status st and gives no
\* other queued song a terminal status
Terminates(s, st) ==
    LET c == sessions[s].current_song
    IN /\ c # NULL => queued_songs'[c].status = st
       /\ \A i \in QueuedIds \ {c} :
              queued_songs'[i].status \in Terminal
                  => queued_songs'[i].status = queued_songs[i].status

\* C8: a host skip that runs alone leaves the previous current song skipped,
\* a host songFinished leaves it played, and neither gives another queued
\* song a terminal status.
C8_SkipSkipsFinishPlays ==
    [][\A u \in Users :
          /\ (SeqControl(u, TRUE) /\ reqs'["r1"].status = 200)
                 => Terminates(users[u], "skipped")
          /\ (SeqFinished(u) /\ reqs'["r1"].status = 200)
                 => Terminates(users[u], "played")]_vars

\* one song was skipped, the next one finished, a third one is playing
C8_Witness ==
    /\ reqs["r1"].pc = "done" /\ reqs["r1"].op = "finished" /\ reqs["r1"].status = 200
    /\ \E i, j, k \in QueuedIds :
          /\ queued_songs[i].status = "skipped"
          /\ queued_songs[j].status = "played"
          /\ queued_songs[k].status = "playing"
          /\ sessions[queued_songs[k].session_id].current_song = k

\* ------------------------------------------------------------------ C9
VoteWrites(r) == reqs[r].pc = "vote_upsert" /\ reqs'[r].pc = "vote_total"

\* C9: a vote cast by a user who has already voted on that song leaves
\* exactly one row for the pair, holding the new value; all other rows are
\* as before, so the total is that of the other users' rows plus the new
\* value.
C9_VoteOverwrites ==
    [][\A r \in Reqs :
          LET t == reqs[r].target
              u == reqs[r].user
              mine == {v \in votes' : v.queued_song_id = t /\ v.user_id = u}
          IN (VoteWrites(r) /\ HasVote(t, u))
                 => /\ Cardinality(mine) = 1
                    /\ \A v \in mine : v.vote_value = reqs[r].value
                    /\ votes' \ mine = votes \ VoteRows(t, u)
                    /\ SumVotes({v \in votes' : v.queued_song_id = t})
                           = SumVotes({v \in votes : v.queued_song_id = t /\ v.user_id # u})
                             + reqs[r].value]_vars

\* u1 voted +1 on song 2 and was told the total 1, then voted -1 and was told
\* the total -1: one row is left
C9_Witness ==
    \E r, r2 \in Reqs :
        /\ r # r2
        /\ reqs[r].pc = "done" /\ reqs[r].op = "vote" /\ reqs[r].user = "u1"
        /\ reqs[r].target = 2 /\ reqs[r].value = 1 /\ reqs[r].ret = 1
        /\ reqs[r2].pc = "done" /\ reqs[r2].op = "vote" /\ reqs[r2].user = "u1"
        /\ reqs[r2].target = 2 /\ reqs[r2].value = -1 /\ reqs[r2].ret = -1
        /\ Cardinality(VoteRows(2, "u1")) = 1
        /\ Total(2) = -1

\* ------------------------------------------------------------------ C10
Written(r) == reqs[r].op = "vote" /\ reqs[r].pc \in {"vote_total", "done"}

\* the two vote requests are on the same song and both have written
BothWritten(r, r2) ==
    /\ r # r2
    /\ Written(r) /\ Written(r2)
    /\ reqs[r].target = reqs[r2].target

\* C10: two concurrent votes on one song by different users leave a total
\* equal to the sum of both values, however their round trips interleave;
\* two by the same user leave one row for the pair, holding one of the two
\* values.
C10_ConcurrentVotes ==
    \A r, r2 \in Reqs :
        BothWritten(r, r2) =>
            LET t == reqs[r].target
            IN IF reqs[r].user # reqs[r2].user
               THEN Total(t) = reqs[r].value + reqs[r2].value
               ELSE /\ Cardinality(VoteRows(t, reqs[r].user)) = 1
                    /\ \A v \in VoteRows(t, reqs[r].user) :
                           v.vote_value \in {reqs[r].value, reqs[r2].value}

\* both users voted +1 on song 2 and both were told the total 2: each
\* request wrote before the other one read; song 1 keeps its two older votes
C10_Witness ==
    \E r, r2 \in Reqs :
        /\ BothWritten(r, r2)
        /\ reqs[r].pc = "done" /\ reqs[r2].pc = "done"
        /\ reqs[r].user = "u1" /\ reqs[r2].user = "u2"
        /\ reqs[r].target = 2
        /\ reqs[r].value = 1 /\ reqs[r2].value = 1
        /\ reqs[r].ret = 2 /\ reqs[r2].ret = 2
        /\ Total(2) = 2
        /\ Total(1) = -2

\* ------------------------------------------------------------------ C11
\* C11: a vote whose value is neither +1 nor -1 is refused with a validation
\* error (422) and writes nothing: the stored votes and the total of every
\* queued song are what they were before the call.
C11_BadVoteRejected ==
    [][\A u \in Users, t \in 1..MaxQueued, v \in VoteBodies :
          SeqVoteBody(u, t, v) /\ v \notin {1, -1}
             => /\ reqs'["r1"].status = 422
                /\ votes' = votes
                /\ \A q \in QueuedIds : Total(q)' = Total(q)
                /\ DB' = DB]_vars

\* a vote of 2 on a song that has votes was refused
C11_Witness ==
    /\ reqs["r1"].op = "vote" /\ reqs["r1"].pc = "done"
    /\ reqs["r1"].value = 2 /\ reqs["r1"].status = 422
    /\ reqs["r1"].target = 1
    /\ Total(1) = 2

\* ------------------------------------------------------------------ C12
\* C12: createSession with a join code that a session already has fails with
\* Conflict (409) and changes nothing: no session row is added, the existing
\* session and the caller's current_session are what they were.
C12_DuplicateCodeConflict ==
    [][\A u \in Users, c \in Codes :
          LifeCreate(u, c) /\ get_by_join_code(DB, c) # NULL
             => /\ reqs'["r1"].status = 409
                /\ sessions' = sessions
                /\ users' = users]_vars

\* ------------------------------------------------------------------ C13
\* C13: a createSession(u, c) that succeeds adds one session whose host is u
\* and whose code is c, leaves the other sessions alone, makes it u's
\* current_session and returns a view of it with an empty queue and no
\* current song; getCurrentSession(u) called next returns that session with
\* host u.
C13_CreateThenCurrent ==
    [][\A u \in Users, c \in Codes :
          LifeCreate(u, c) /\ reqs'["r1"].status = 200
             => LET view == reqs'["r1"].view
                    sid == view.session
                    cur == RunToEnd(DB', CurrentRequest(u)).req
                IN /\ Len(sessions') = Len(sessions) + 1
                   /\ sid = Len(sessions')
                   /\ sessions'[sid].host_id = u
                   /\ sessions'[sid].join_code = c
                   /\ \A s \in 1..Len(sessions) : sessions'[s] = sessions[s]
                   /\ users'[u] = sid
                   /\ view.host = u
                   /\ view.queue = <<>>
                   /\ view.current_song = NULL
                   /\ cur.status = 200
                   /\ cur.view.session = sid
                   /\ cur.view.host = u]_vars

\* u2 has created the second session while session 1 has a queue
C13_Witness ==
    /\ reqs["r1"].op = "create" /\ reqs["r1"].status = 200
    /\ reqs["r1"].user = "u2"
    /\ reqs["r1"].view.session = 2
    /\ sessions[1].host_id = "u1"
    /\ Len(queued_songs) = 2
    /\ users["u2"] = 2

\* ------------------------------------------------------------------ C14
\* C14: joinSession with a well-formed code (4 to 20 characters, the lengths
\* a session's code can have) that no session has fails with NotFound (404)
\* and leaves every user's current_session, the caller's included, unchanged.
C14_UnknownCodeNotFound ==
    [][\A u \in Users, c \in Codes :
          LifeJoin(u, c) /\ Len(c) >= 4 /\ Len(c) <= 20 /\ get_by_join_code(DB, c) = NULL
             => /\ reqs'["r1"].status = 404
                /\ users' = users]_vars

\* ------------------------------------------------------------------ C15
\* C15: after a joinSession(u, c) that succeeds, u's current_session is the
\* session whose code is c, whatever it was before; no other user's
\* current_session changes; every user is in at most one session; and
\* getCurrentSession(u) called next returns the session just joined.
C15_JoinSetsCurrent ==
    [][\A u \in Users, c \in Codes :
          LifeJoin(u, c) /\ reqs'["r1"].status = 200
             => LET sid == users'[u]
                    cur == RunToEnd(DB', CurrentRequest(u)).req
                IN /\ sid \in 1..Len(sessions')
                   /\ sessions'[sid].join_code = c
                   /\ reqs'["r1"].view.session = sid
                   /\ \A v \in Users \ {u} : users'[v] = users[v]
                   /\ \A v \in Users :
                         Cardinality({s \in 1..Len(sessions') : users'[v] = s}) <= 1
                   /\ cur.status = 200
                   /\ cur.view.session = sid]_vars

\* u2 hosts session 2 and has now joined session 1, which has a queue
C15_Witness ==
    /\ reqs["r1"].op = "join" /\ reqs["r1"].status = 200
    /\ reqs["r1"].user = "u2"
    /\ Len(sessions) = 2
    /\ sessions[2].host_id = "u2"
    /\ sessions[1].host_id = "u1"
    /\ users["u2"] = 1
    /\ Len(reqs["r1"].view.queue) = 2

\* ------------------------------------------------------------------ C16
\* C16: a joinSession that succeeds returns the full current view of the
\* session: its host, its queue in listing order and its current song; the
\* returned current song is non-null whenever session.current_song is set
\* and is the one getCurrentSession returns in the same state.
C16_JoinReturnsCurrentSong ==
    [][\A u \in Users, c \in Codes :
          LifeJoin(u, c) /\ reqs'["r1"].status = 200
             => LET view == reqs'["r1"].view
                    sid == view.session
                    cur == RunToEnd(DB', CurrentRequest(u)).req
                IN /\ view.host = sessions'[sid].host_id
                   /\ view.queue = QueueIds(DB', sid)
                   /\ sessions'[sid].current_song # NULL => view.current_song # NULL
                   /\ view.current_song = cur.view.current_song]_vars

\* ------------------------------------------------------------------ C17
\* C17: leaveSession always succeeds and leaves the caller's
\* current_session null; called with no active session, or a second time
\* right after, it succeeds again and the state is the one a single call
\* leaves.
C17_LeaveIdempotent ==
    [][\A u \in Users :
          LifeLeave(u)
             => LET again == RunToEnd(DB', LeaveRequest(u))
                IN /\ reqs'["r1"].status = 200
                   /\ users'[u] = NULL
                   /\ users[u] = NULL => DB' = DB
                   /\ again.req.status = 200
                   /\ again.db = DB']_vars

\* a leave was served while no session existed at all
C17_Witness ==
    /\ reqs["r1"].op = "leave" /\ reqs["r1"].status = 200
    /\ reqs["r1"].user = "u2"
    /\ sessions = <<>>
    /\ users["u2"] = NULL

\* ------------------------------------------------------------------ C18
\* C18: leaveSession changes the caller's current_session and nothing else:
\* every session (its host and its current song), every queued song, every
\* vote and every other user's current_session stay as they were, also when
\* the caller hosts the session.
C18_LeaveTouchesOnlyCaller ==
    [][\A u \in Users :
          LifeLeave(u)
             => /\ sessions' = sessions
                /\ queued_songs' = queued_songs
                /\ votes' = votes
                /\ songs' = songs
                /\ \A v \in Users \ {u} : users'[v] = users[v]]_vars

\* the host of the only session has left it; its current song, its queue,
\* the vote on it and the other member are still there
C18_Witness ==
    /\ reqs["r1"].op = "leave" /\ reqs["r1"].status = 200
    /\ reqs["r1"].user = "u1"
    /\ Len(sessions) = 1
    /\ sessions[1].host_id = "u1"
    /\ sessions[1].current_song = 1
    /\ Len(queued_songs) = 2
    /\ votes # {}
    /\ users["u1"] = NULL
    /\ users["u2"] = 1

\* ------------------------------------------------------------------ C19
\* C19: getCurrentSession fails with NotFound (404) whenever the caller's
\* current_session is null, succeeds with the view of that session whenever
\* it references an existing session, and writes nothing either way.
C19_CurrentNotFoundOrView ==
    [][\A u \in Users :
          LifeGetCurrent(u)
             => /\ users[u] = NULL => reqs'["r1"].status = 404
                /\ users[u] \in 1..Len(sessions)
                      => /\ reqs'["r1"].status = 200
                         /\ reqs'["r1"].view.session = users[u]
                         /\ reqs'["r1"].view.host = sessions[users[u]].host_id
                /\ DB' = DB]_vars

\* u1 created the only session, left it, and was then told NotFound
C19_Witness ==
    /\ reqs["r1"].op = "current" /\ reqs["r1"].status = 404
    /\ reqs["r1"].user = "u1"
    /\ Len(sessions) = 1
    /\ sessions[1].host_id = "u1"
    /\ users["u1"] = NULL
    /\ users["u2"] = 1

\* ------------------------------------------------------------------ C20
\* C20: songFinished called by the host while the session has no current
\* song fails with NotFound (404) and changes no queued song's status and
\* no session's current_song.
C20_FinishedWithoutCurrent ==
    [][\A u \in Users :
          /\ SeqFinished(u)
          /\ users[u] # NULL
          /\ sessions[users[u]].host_id = u
          /\ sessions[users[u]].current_song = NULL
          => /\ reqs'["r1"].status = 404
             /\ queued_songs' = queued_songs
             /\ sessions' = sessions]_vars

\* ------------------------------------------------------------------ C21
\* C21: addSong by a user whose current_session is null fails with
\* BadRequest (400) and writes nothing: the catalog, the queued songs and
\* every session's current_song are what they were.
C21_AddWithoutSession ==
    [][\A u \in Users, s \in Songs :
          LifeAdd(u, s) /\ users[u] = NULL
             => /\ reqs'["r1"].status = 400
                /\ songs' = songs
                /\ queued_songs' = queued_songs
                /\ sessions' = sessions
                /\ DB' = DB]_vars

\* u2 is in no session and was refused while session 1 has a current song
C21_Witness ==
    /\ reqs["r1"].op = "add" /\ reqs["r1"].status = 400
    /\ reqs["r1"].user = "u2"
    /\ users["u2"] = NULL
    /\ Len(sessions) = 1
    /\ sessions[1].current_song = 1
    /\ Len(queued_songs) = 1

\* ------------------------------------------------------------------ C22
\* C22: every addSong by a user with an active session succeeds (200),
\* whether or not it takes the current-song slot, and the added song is in
\* the listing of that session afterwards.
C22_EveryAddSucceeds ==
    [][\A u \in Users, s \in Songs :
          WrittenAdd(u, s) /\ users[u] # NULL
             => /\ reqs'["r1"].status = 200
                /\ \E k \in 1..Len(QueueIds(DB', users[u])) :
                      QueueIds(DB', users[u])[k] = reqs'["r1"].ret]_vars

C24_CurrentSongOfSession ==
    \A s \in 1..Len(sessions) :
        sessions[s].current_song # NULL
           => /\ sessions[s].current_song \in 1..Len(queued_songs)
              /\ queued_songs[sessions[s].current_song].session_id = s

\* u2 started an add in session 2, joined session 1 before the insert and
\* the add still went to session 2, whose current song it now is
C24_Witness ==
    /\ users["u2"] = 1
    /\ Len(queued_songs) = 2
    /\ queued_songs[1].session_id = 1
    /\ queued_songs[2].session_id = 2
    /\ sessions[1].current_song = 1
    /\ sessions[2].current_song = 2
    /\ \E r \in Reqs : reqs[r].op = "add" /\ reqs[r].user = "u2" /\ reqs[r].pc = "add_list"
                       /\ reqs[r].sid = 2

\* ------------------------------------------------------------------ C25
\* C25: every status change of a queued song is queued -> playing,
\* playing -> played or playing -> skipped: no song reaches played or
\* skipped straight from queued and none goes back from playing to queued.
C25_StatusSteps ==
    [][\A k \in 1..Len(queued_songs) :
          queued_songs'[k].status # queued_songs[k].status
             => <<queued_songs[k].status, queued_songs'[k].status>>
                   \in {<<"queued", "playing">>, <<"playing", "played">>,
                        <<"playing", "skipped">>}]_vars

\* ------------------------------------------------------------------ C26
\* C26: the writes of a host advance are conditional on nothing: the mark of
\* the current song, the promotion of the next song and the update of
\* session.current_song take effect whatever another advance has written
\* since this one read the session.  (The duplicate advancement this allows
\* is the state of C26_Witness.)
C26_AdvanceUnconditional ==
    [][\A r \in Reqs :
          /\ HostMarkCurrentStep(r)
                => queued_songs'[reqs[r].cur].status =
                      (IF reqs[r].op = "control" THEN "skipped" ELSE "played")
          /\ AdvanceSetPlayingStep(r)
                => queued_songs'[reqs[r].next].status = "playing"
          /\ AdvanceSetCurrentStep(r)
                => sessions'[reqs[r].sid].current_song = reqs[r].next]_vars

\* two advances of the host have finished; one song was terminated, two
\* others were promoted to playing and only one of them is current
C26_Witness ==
    /\ \A r \in Reqs : reqs[r].op \in HostOps /\ reqs[r].pc = "done" /\ reqs[r].status = 200
    /\ \E r, r2 \in Reqs : reqs[r].op = "control" /\ reqs[r2].op = "finished"
    /\ Len(queued_songs) = 3
    /\ \A k \in 1..3 : queued_songs[k].session_id = 1
    /\ queued_songs[1].status \in Terminal
    /\ queued_songs[2].status = "playing"
    /\ queued_songs[3].status = "playing"
    /\ sessions[1].current_song = 2

\* ------------------------------------------------------------------ C27
\* C27: after a controlSession of the host that sets is_locked or
\* pause_playback, the state of the session reflects the value asked for:
\* the same call with another value for a flag it sets would have left a
\* different state.
C27_FlagsRecorded ==
    [][\A u \in Users, body \in ControlBodies :
          /\ reqs'["r1"].op = "control"
          /\ reqs'["r1"].status = 200
          /\ SeqControlBody(u, body)
          => \A other \in ControlBodies :
                /\ other.skip_current_track = body.skip_current_track
                /\ \/ body.is_locked # "unset" /\ other.is_locked # body.is_locked
                   \/ body.pause_playback # "unset"
                         /\ other.pause_playback # body.pause_playback
                => RunToEnd(DB, ControlBodyRequest(u, other)).db # DB']_vars

\* ------------------------------------------------------------------ C28
\* C28: a controlSession of the host whose body does not set
\* skip_current_track (it sets is_locked, pause_playback, both or nothing)
\* succeeds, changes no queued song's status and leaves every session's
\* current_song as it was.
C28_ControlWithoutSkip ==
    [][\A u \in Users, body \in ControlBodies :
          /\ ~body.skip_current_track
          /\ users[u] # NULL
          /\ sessions[users[u]].host_id = u
          /\ reqs'["r1"].op = "control"
          /\ SeqControlBody(u, body)
          => /\ reqs'["r1"].status = 200
             /\ queued_songs' = queued_songs
             /\ sessions' = sessions
             /\ DB' = DB]_vars

\* the host's control call was answered while song 1 is current, song 2
\* waits and nothing has been terminated: the call did not skip
C28_Witness ==
    /\ reqs["r1"].op = "control" /\ reqs["r1"].status = 200
    /\ reqs["r1"].user = "u1"
    /\ Len(queued_songs) = 2
    /\ \A k \in 1..2 : queued_songs[k].session_id = 1 /\ queued_songs[k].status = "queued"
    /\ sessions[1].current_song = 1
    /\ votes # {}

\* ------------------------------------------------------------------ C29
\* C29: createSession accepts a join code only if it has 4 to 20
\* characters; with a shorter or a longer code it fails with a validation
\* error (422), creates no session and changes no user's current_session.
C29_CreateCodeLength ==
    [][\A u \in Users, c \in BoundaryCodes :
          CodeCreate(u, c)
             => /\ reqs'["r1"].status = 200 => Len(c) >= 4 /\ Len(c) <= 20
                /\ Len(c) < 4 \/ Len(c) > 20
                      => /\ reqs'["r1"].status = 422
                         /\ sessions' = sessions
                         /\ users' = users]_vars

\* with the codes of 4 and of 20 characters taken, a code of 21 characters
\* was refused
C29_Witness ==
    /\ reqs["r1"].op = "create" /\ reqs["r1"].status = 422
    /\ Len(reqs["r1"].code) = 21
    /\ Len(sessions) = 2
    /\ Len(sessions[1].join_code) = 4
    /\ Len(sessions[2].join_code) = 20
    /\ users[reqs["r1"].user] = 1

\* ------------------------------------------------------------------ C30
\* C30: a failure that is not an HTTPException (nor a validation error) is
\* answered with status 500 and the fixed text 'Internal server error'; the
\* response holds nothing of the exception, so any other internal error in
\* its place gives the same response, the request id apart.
C30_InternalErrorsAreOpaque ==
    [][\A r \in Reqs, request_id \in RequestIds, exc \in InternalErrors :
          FailInternal(r, request_id, exc)
             => /\ reqs'[r].status = 500
                /\ reqs'[r].body = [error |-> "Internal server error", status_code |-> 500,
                                    request_id |-> request_id]
                /\ reqs'[r].body.error \notin {exc.type, exc.message}
                /\ \A other \in InternalErrors, other_id \in RequestIds :
                      [HandleException(other_id, other).content EXCEPT !.request_id = request_id]
                         = reqs'[r].body]_vars

\* one request ended with an internal error, the other with a 404 whose
\* detail is passed on
C30_Witness ==
    /\ reqs["r1"].op = "failed" /\ reqs["r1"].status = 500
    /\ reqs["r1"].body.error = "Internal server error"
    /\ reqs["r1"].body.request_id = "req-1"
    /\ reqs["r2"].op = "failed" /\ reqs["r2"].status = 404
    /\ reqs["r2"].body.error = "Session not found"
    /\ reqs["r2"].body.request_id = "req-2"

\* ------------------------------------------------------------------ C31
\* C31: the X-Request-ID header of a response equals the X-Request-ID
\* header of its request when the request has one, and is a UUID4
\* otherwise; two requests without the header get different ids.
C31_RequestIdEchoed ==
    /\ \A r \in Reqs :
          reqs[r].op = "request" =>
              LET b == reqs[r].body
              IN IF b.header # <<>> THEN b.request_id = b.header[1]
                 ELSE b.request_id \in UUID4s
    /\ \A r \in Reqs : \A r2 \in Reqs \ {r} :
          (reqs[r].op = "request" /\ reqs[r2].op = "request"
             /\ reqs[r].body.header = <<>> /\ reqs[r2].body.header = <<>>)
          => reqs[r].body.request_id # reqs[r2].body.request_id

\* ------------------------------------------------------------------ C32
\* the result is value masked as described: a string of the same length
\* whose last visible characters are those of value and whose other
\* characters are the mask character, all of it masked when value is no
\* longer than visible; dict values and list items likewise; anything else
\* unchanged
RECURSIVE MaskedAsDescribed(_, _, _)
MaskedAsDescribed(value, result, visible) ==
    /\ result.type = value.type
    /\ IF value.type = "other" THEN result = value
       ELSE /\ Len(result.v) = Len(value.v)
            /\ \A i \in 1..Len(value.v) :
                  IF value.type = "str"
                  THEN result.v[i] = IF Len(value.v) > visible /\ i > Len(value.v) - visible
                                     THEN value.v[i] ELSE "*"
                  ELSE IF value.type = "dict"
                  THEN /\ result.v[i][1] = value.v[i][1]
                       /\ MaskedAsDescribed(value.v[i][2], result.v[i][2], visible)
                  ELSE MaskedAsDescribed(value.v[i], result.v[i], visible)

\* C32: mask_sensitive_value of a string is a string of the same length
\* that keeps exactly the last visible_chars characters and masks the rest,
\* masks a string no longer than visible_chars completely, and masks dict
\* values and list items element-wise, recursively.
C32_MaskKeepsTail ==
    reqs["r1"].op = "mask" =>
        MaskedAsDescribed(reqs["r1"].body.value, reqs["r1"].body.result,
                          reqs["r1"].body.visible_chars)

\* ------------------------------------------------------------------ C33
\* C33: list_session_queue(s) returns exactly the queued songs whose session
\* is s: every one of them whatever its status, each once, and none of
\* another session.
C33_ListIsSessionRows ==
    \A s \in SessionIds :
        LET q == list_session_queue(DB, s)
            mine == {i \in QueuedIds : queued_songs[i].session_id = s}
        IN /\ {q[k].id : k \in 1..Len(q)} = mine
           /\ Len(q) = Cardinality(mine)
           /\ \A k \in 1..Len(q) : q[k].status = queued_songs[q[k].id].status

\* a session with a finished and a playing song while the other session
\* has a song of its own
C33_Witness ==
    \E s \in SessionIds, i \in QueuedIds, j \in QueuedIds, k \in QueuedIds :
        /\ queued_songs[i].session_id = s /\ queued_songs[i].status \in Terminal
        /\ queued_songs[j].session_id = s /\ queued_songs[j].status = "playing"
        /\ queued_songs[k].session_id # s
        /\ Len(list_session_queue(DB, s)) = 2

\* ------------------------------------------------------------------ C34
\* the total listed for queued song t
Reported(t) ==
    LET q == list_session_queue(DB, queued_songs[t].session_id)
        k == CHOOSE k \in 1..Len(q) : q[k].id = t
    IN q[k].votes

Voters(t) == {v.user_id : v \in {w \in votes : w.queued_song_id = t}}

\* C34: in every reachable state the vote total reported for a queued song
\* is the sum of the current vote rows of that song, 0 when there are none,
\* and so lies between -n and n for n the number of users who have voted
\* on it.
C34_TotalIsSumOfRows ==
    \A t \in QueuedIds :
        LET up == Cardinality({v \in votes : v.queued_song_id = t /\ v.vote_value = 1})
            down == Cardinality({v \in votes : v.queued_song_id = t /\ v.vote_value = -1})
            others == {v \in votes : v.queued_song_id = t /\ v.vote_value \notin {1, -1}}
            n == Cardinality(Voters(t))
        IN /\ others = {}
           /\ Reported(t) = up - down
           /\ 0 - n <= Reported(t) /\ Reported(t) <= n

\* one song voted down by both users while the other has no vote at all
C34_Witness ==
    \E t \in QueuedIds, o \in QueuedIds :
        /\ Voters(t) = Users /\ Reported(t) = -2
        /\ Voters(o) = {} /\ Reported(o) = 0

\* ------------------------------------------------------------------ C35
\* C35: in every reachable state, under any interleaving of adds and host
\* advances, a session has at most one queued song with status playing and
\* a queued song with status playing is the current song of its session.
C35_OnePlayingAndCurrent ==
    \A s \in SessionIds :
        LET playing == {i \in QueuedIds : /\ queued_songs[i].session_id = s
                                          /\ queued_songs[i].status = "playing"}
        IN /\ Cardinality(playing) <= 1
           /\ \A i \in playing : sessions[s].current_song = i

\* ------------------------------------------------------------------ C36
\* C36: when no more songs are added to the session and the host keeps
\* calling songFinished, eventually every queued song of the session is
\* played or skipped and the session has no current song, also after
\* requests that ran concurrently.
C36_QueueDrains ==
    []<><<\E r \in Reqs : StartFinished(r, "u1")>>_vars
    => <>[](/\ \A i \in QueuedIds : queued_songs[i].status \in Terminal
            /\ sessions[1].current_song = NULL)

\* ------------------------------------------------------------------ C37
\* C37: a session that createSession accepted with join code c can be
\* joined with joinSession(c) afterwards: the join accepts every code the
\* create accepts (4 to 20 characters).
C37_CreatedCodeJoins ==
    [][\A u \in Users, c \in BoundaryCodes :
          (CodeCreate(u, c) /\ reqs'["r1"].status = 200)
             => \A v \in Users :
                   LET join == RunToEnd(DB', JoinRequest(v, c))
                   IN /\ join.req.status = 200
                      /\ join.db.users[v] = get_by_join_code(DB', c)]_vars

\* ------------------------------------------------------------------ C38
\* the sessions user u hosts without being in them
HostedElsewhere(u) == {s \in SessionIds : sessions[s].host_id = u /\ users[u] # s}

\* C38: controlSession and songFinished check the host on the caller's
\* current_session only: a user who hosts a session but whose
\* current_session is another session they do not host gets 403, one whose
\* current_session is null gets 404, and in both cases no session and no
\* queued song is modified.
C38_HostOfCurrentOnly ==
    [][reqs'["r1"].op \in HostOps
          => LET u == reqs'["r1"].user
             IN /\ (users[u] # NULL /\ sessions[users[u]].host_id # u /\ HostedElsewhere(u) # {})
                      => reqs'["r1"].status = 403 /\ DB' = DB
                /\ users[u] = NULL
                      => reqs'["r1"].status = 404 /\ DB' = DB]_vars

\* a host who has joined the other session was refused there while both
\* sessions had a current song
C38_Witness ==
    LET u == reqs["r1"].user
    IN /\ reqs["r1"].op \in HostOps /\ reqs["r1"].status = 403
       /\ users[u] # NULL /\ sessions[users[u]].host_id # u
       /\ HostedElsewhere(u) # {}
       /\ \A s \in SessionIds : sessions[s].current_song # NULL

\* ------------------------------------------------------------------ C39
\* C39: a vote changes only the caller's vote row for that queued song: no
\* status of a queued song, no current_song of a session and no vote of
\* another user changes, so a vote reorders the queue without replacing
\* the current song.
C39_VoteTouchesOwnRowOnly ==
    [][\A r \in Reqs :
          (reqs[r].op = "vote" /\ reqs[r].pc # "done" /\ reqs'[r] # reqs[r])
             => LET mine(v) == v.queued_song_id = reqs[r].target /\ v.user_id = reqs[r].user
                IN /\ queued_songs' = queued_songs
                   /\ sessions' = sessions
                   /\ users' = users
                   /\ songs' = songs
                   /\ {v \in votes' : ~mine(v)} = {v \in votes : ~mine(v)}]_vars

\* both users have voted for song 2, which is now listed first, and song 1
\* is still the current song
C39_Witness ==
    /\ \E r \in Reqs : reqs[r].op = "vote" /\ reqs[r].pc = "done" /\ reqs[r].target = 2
    /\ \A u \in Users : \E v \in votes : v.queued_song_id = 2 /\ v.user_id = u /\ v.vote_value = 1
    /\ \E v \in votes : v.queued_song_id = 1
    /\ list_session_queue(DB, 1)[1].id = 2
    /\ sessions[1].current_song = 1

\* ------------------------------------------------------------------ C40
\* the createSession calls that have succeeded, or have inserted their
\* session and set the caller's current_session
Created(r) ==
    /\ reqs[r].op = "create"
    /\ \/ reqs[r].pc = "create_host"
       \/ reqs[r].pc = "done" /\ reqs[r].status = 200

CreatedSession(r) == IF reqs[r].pc = "done" THEN reqs[r].view.session ELSE reqs[r].sid

\* C40: no two sessions share a join code; of the concurrent createSession
\* calls with the same code exactly one succeeds, and only the successful
\* caller's current_session is changed.
C40_OneCreatePerCode ==
    /\ \A s, t \in SessionIds : sessions[s].join_code = sessions[t].join_code => s = t
    /\ \A u \in Users :
          users[u] # NULL
             => \E r \in Reqs : Created(r) /\ reqs[r].user = u /\ CreatedSession(r) = users[u]
    /\ \A r \in Reqs : \A r2 \in Reqs \ {r} :
          (/\ reqs[r].op = "create" /\ reqs[r].pc = "done"
           /\ reqs[r2].op = "create" /\ reqs[r2].pc = "done"
           /\ reqs[r].code = reqs[r2].code /\ ValidCreateCode(reqs[r].code))
          => /\ reqs[r].status = 200 \/ reqs[r2].status = 200
             /\ reqs[r].status # 200 \/ reqs[r2].status # 200

\* two users asked for the same code at the same time: one call has
\* inserted the session and has not yet set its caller's current_session
\* when the other is refused, and nobody is in a session yet
C40_Witness ==
    \E r \in Reqs : \E r2 \in Reqs \ {r} :
        /\ reqs[r].op = "create" /\ reqs[r].pc = "create_setuser"
        /\ reqs[r2].op = "create" /\ reqs[r2].pc = "done" /\ reqs[r2].status = 500
        /\ reqs[r].code = reqs[r2].code /\ reqs[r].user # reqs[r2].user
        /\ Len(sessions) = 1
        /\ \A u \in Users : users[u] = NULL

====
